---- MODULE Spec2Model ----
(***************************************************************************)
(* LinkedIn profile visitor: the visit loop of the four programs of the    *)
(* repository (main.js, part_000, part_001, part_002), one run at a time.  *)
(*   main.js   main():             no login check, continue on failure     *)
(*   part_000  main():             boolean login check, continue           *)
(*   part_002  runProfileVisits(): boolean login check, continue           *)
(*   part_001  runProfileVisits(): strict login check, stop on failure,    *)
(*                                 Slack notifications                     *)
(***************************************************************************)
EXTENDS Integers, Sequences, FiniteSets, TLC

VARIABLES
    prog,          \* which program runs
    urlsEnv,       \* process.env.URLS: "unset", "notjson", "nourls", "valid"
    urlList,       \* the urls array of URLS when it is valid
    cookieFile,    \* the file at COOKIES_PATH: "absent", "notjson", "notarray"
                   \* (JSON object, number, null), "string" (a JSON string), "valid"
    numCookies,    \* number of entries of the parsed cookie value
    webhook,       \* process.env.SLACK_WEBHOOK_URL: "unset", "unparsable", "valid"
    pc,            \* position of the run
    profileUrls,   \* const profileUrls = loadProfileUrls()
    index,         \* loop variable of the run (0-based, as in the code)
    results,       \* const results = []
    successCount,
    failureCount,
    ret,           \* value returned by the run routine
    browser,       \* let browser = null (0) or the id of the launched browser
    vstate,        \* terminal state of the current visit: "none", "SUCCESS", "FAILURE"
    vret,          \* value returned by visitProfile
    verr,          \* message of the error caught by visitProfile, "" if none
    closeCalled,   \* browser.close() was invoked in the current visit
    gotos,         \* page.goto calls of the current visit, in order
    cookieLog,     \* page.setCookie calls of the addCookie call that just ended
    reloaded,      \* its page.reload(): "no", "ok", "failed"
    closeThrew,    \* browser.close() raised in the current visit
    kill,          \* exec('pkill -f chromium') of the current visit:
                   \* "none", "issued", "failed" (exec raised)
    open,          \* ids of the browser processes that are alive
    pendingKill,   \* exec('pkill -f chromium') issued and not yet effective
    attempted,     \* indexes for which visitProfile was called, in order
    launched,      \* indexes for which puppeteer.launch was called
    navigated,     \* indexes whose profile URL was passed to page.goto
    outcomes,      \* terminal state of each finished visit, in order
    slack,         \* notifications handed to sendSlackNotification, in order
    delivery,      \* how the last sendSlackNotification call ended
    phases,        \* phases of the current visit that have completed, in order
    pauses,        \* indexes after whose visit the run has paused
    trigger,       \* what invoked the run: "none", "main", "http" (POST /run), "cron"
    response,      \* end of the invoking handler: "none", "200", "500", "cron_done"
    alive,         \* the node process is running
    idleTicks,     \* iterations of the while (true) loop of main
    rid,           \* number of the run the variables above belong to
    other,         \* the variables of the other invocation of the run routine
    fn,            \* function applied in isolation: "none", "detector", "dwell", "pause"
    dpage,         \* its input page
    rnd,           \* its input Math.random() = rnd / RandSteps
    dres,          \* result of the detector: "none", "true", "false"
    wait           \* milliseconds passed to sleep, 0 when not computed

config == <<prog, urlsEnv, urlList, cookieFile, numCookies, webhook>>
runv   == <<pc, profileUrls, index, results, successCount, failureCount, ret>>
cookv  == <<cookieLog, reloaded>>
tearv  == <<closeThrew, kill>>
visitv == <<browser, vstate, vret, verr, closeCalled, gotos, cookv, tearv, phases>>
procv  == <<open, pendingKill>>
histv  == <<attempted, launched, navigated, outcomes, pauses>>
slackv == <<slack, delivery>>
reqv   == <<trigger, response>>
hostv  == <<trigger, response, alive>>
purev  == <<fn, dpage, rnd, dres, wait>>
auxv   == <<idleTicks, rid, other, purev>>
vars   == <<config, runv, visitv, procv, histv, slackv, hostv, auxv>>

----------------------------------------------------------------------------
(* Bounds of the model *)
MaxUrls == 2
MaxCookies == 2
MaxTicks == 2
RandSteps == 200

\* The programs never compare URLs, so the lists of distinct URLs
\* <<>>, <<in/1>>, <<in/1, in/2>>, ... stand for all lists of their length.
Url(i) == <<"in", i>>
Urls   == {[i \in 1..n |-> Url(i)] : n \in 0..MaxUrls}

Progs      == {"main.js", "part_000", "part_001", "part_002"}
Strict     == "part_001"
Lenient    == "part_002"
MainProgs  == {"main.js", "part_000"}

----------------------------------------------------------------------------
(* loadProfileUrls: JSON.parse(process.env.URLS).urls, [] on any error *)
loadProfileUrls(env, list) ==
    IF env = "valid" THEN list ELSE <<>>

(* JavaScript truthiness of an array value: every array, [] included, is truthy *)
Truthy(arr) == TRUE

(* sendSlackNotification: new URL(webhookUrl) runs inside the promise
   executor, so a throw there rejects the promise; the response and error
   handlers all call resolve() *)
UrlParses(w) == w = "valid"

NotifyRejects(w) == ~UrlParses(w)

Deliveries == {"ok", "non2xx", "connerror"}

----------------------------------------------------------------------------
(* checkLoginStatus *)
NumLoginIndicators == 6
LoginUrlParts == {"/authwall", "/signup", "/login"}
UrlParts == LoginUrlParts \cup {"linkedin.com"}

\* a page as the detector sees it
Pages == [redirectError : BOOLEAN,          \* an error element with a redirect text
          markers : SUBSET (1..NumLoginIndicators),  \* login selectors that match
          url : SUBSET UrlParts,            \* substrings contained in page.url()
          throws : BOOLEAN]                 \* page.$ raises

\* a detector that looks at the selectors and the domain only
checkLoginStatusBoolNoUrlCheck(p) ==
    IF p.throws THEN FALSE
    ELSE IF p.markers # {} THEN FALSE
    ELSE "linkedin.com" \in p.url

\* part_002 / part_000: boolean detector
checkLoginStatusBool(p) ==
    IF p.throws THEN FALSE
    ELSE IF p.markers # {} THEN FALSE
    ELSE IF p.url \cap LoginUrlParts # {} THEN FALSE
    ELSE IF "linkedin.com" \in p.url THEN TRUE
    ELSE FALSE

\* a strict detector that looks for the login selectors and the URL first
checkLoginStatusStrictMarkersFirst(p, w) ==
    IF p.throws THEN "LOGIN_ERROR: Unable to verify login status"
    ELSE IF p.markers # {} THEN "LOGIN_ERROR: Not logged in - authentication required"
    ELSE IF p.url \cap LoginUrlParts # {} THEN "LOGIN_ERROR: Redirected to authentication page"
    ELSE IF p.redirectError
         THEN IF w # "valid"
              THEN "LOGIN_ERROR: Unable to verify login status"
              ELSE "LOGIN_ERROR: Too many redirects - cookies may be invalid"
    ELSE IF "linkedin.com" \in p.url THEN "true"
    ELSE "LOGIN_ERROR: Not on LinkedIn domain"

\* a strict detector that answers false off the LinkedIn domain
checkLoginStatusStrictReturnsFalse(p, w) ==
    IF p.throws THEN "LOGIN_ERROR: Unable to verify login status"
    ELSE IF p.redirectError
         THEN IF w # "valid"
              THEN "LOGIN_ERROR: Unable to verify login status"
              ELSE "LOGIN_ERROR: Too many redirects - cookies may be invalid"
    ELSE IF p.markers # {} THEN "LOGIN_ERROR: Not logged in - authentication required"
    ELSE IF p.url \cap LoginUrlParts # {} THEN "LOGIN_ERROR: Redirected to authentication page"
    ELSE IF "linkedin.com" \in p.url THEN "true"
    ELSE "false"

\* part_001: strict detector; "true" or the message of the error thrown.
\* On a redirect error the urgent notification is awaited first, and its
\* rejection is converted like any other error.
checkLoginStatusStrict(p, w) ==
    IF p.throws THEN "LOGIN_ERROR: Unable to verify login status"
    ELSE IF p.redirectError
         THEN IF NotifyRejects(w)
              THEN "LOGIN_ERROR: Unable to verify login status"
              ELSE "LOGIN_ERROR: Too many redirects - cookies may be invalid"
    ELSE IF p.markers # {} THEN "LOGIN_ERROR: Not logged in - authentication required"
    ELSE IF p.url \cap LoginUrlParts # {} THEN "LOGIN_ERROR: Redirected to authentication page"
    ELSE IF "linkedin.com" \in p.url THEN "true"
    ELSE "LOGIN_ERROR: Not on LinkedIn domain"

\* Both detectors return at the first selector that matches and at the first
\* URL substring found, so a visit draws its page from one page per
\* combination of: inspection error, redirect error, some selector matching,
\* some login substring in the URL, linkedin.com in the URL.
VisitPages ==
    [redirectError : BOOLEAN,
     markers : SUBSET {1},
     url : SUBSET {"/login", "linkedin.com"},
     throws : BOOLEAN]

\* every page is answered by both detectors as some page of VisitPages is
VisitPagesCover ==
    \A p \in Pages : \E q \in VisitPages :
        /\ checkLoginStatusBool(q) = checkLoginStatusBool(p)
        /\ \A w \in {"unset", "unparsable", "valid"} :
              checkLoginStatusStrict(q, w) = checkLoginStatusStrict(p, w)
        /\ (~q.throws /\ q.redirectError) = (~p.throws /\ p.redirectError)

\* part_001 visitProfile: the error of the visit once checkLoginStatus has
\* answered r: none for true, the message of the if (!isOnProfile) branch for
\* false, and error.message from the catch block for an error thrown
CheckOutcome(r) ==
    IF r = "true" THEN ""
    ELSE IF r = "false" THEN "LOGIN_ERROR: Authentication failed on profile page"
    ELSE r

IsLoginError(msg) ==
    msg \in {"LOGIN_ERROR: Unable to verify login status",
             "LOGIN_ERROR: Too many redirects - cookies may be invalid",
             "LOGIN_ERROR: Not logged in - authentication required",
             "LOGIN_ERROR: Redirected to authentication page",
             "LOGIN_ERROR: Not on LinkedIn domain",
             "LOGIN_ERROR: Authentication failed on profile page"}

----------------------------------------------------------------------------
(* the variables of an invocation of the run routine that has not started *)
FreshContext(r) ==
    [rid |-> r, pc |-> "idle", profileUrls |-> <<>>, index |-> 0, results |-> <<>>,
     successCount |-> 0, failureCount |-> 0, ret |-> [kind |-> "none"],
     browser |-> 0, vstate |-> "none", vret |-> [undef |-> TRUE], verr |-> "",
     closeCalled |-> FALSE, gotos |-> <<>>, cookieLog |-> <<>>, reloaded |-> "no",
     closeThrew |-> FALSE, kill |-> "none", phases |-> <<>>,
     attempted |-> <<>>, launched |-> {}, navigated |-> {}, outcomes |-> <<>>,
     pauses |-> {},
     slack |-> <<>>, delivery |-> "none", trigger |-> "none", response |-> "none"]

NoPage == [redirectError |-> FALSE, markers |-> {}, url |-> {}, throws |-> FALSE]

(* no run has started: the state after the module is loaded *)
Quiescent ==
    /\ pc = "idle"
    /\ profileUrls = <<>>
    /\ index = 0
    /\ results = <<>>
    /\ successCount = 0
    /\ failureCount = 0
    /\ ret = [kind |-> "none"]
    /\ browser = 0
    /\ vstate = "none"
    /\ vret = [undef |-> TRUE]
    /\ verr = ""
    /\ closeCalled = FALSE
    /\ gotos = <<>>
    /\ cookieLog = <<>>
    /\ reloaded = "no"
    /\ closeThrew = FALSE
    /\ kill = "none"
    /\ phases = <<>>
    /\ pauses = {}
    /\ open = {}
    /\ pendingKill = FALSE
    /\ attempted = <<>>
    /\ launched = {}
    /\ navigated = {}
    /\ outcomes = <<>>
    /\ slack = <<>>
    /\ delivery = "none"
    /\ trigger = "none"
    /\ response = "none"
    /\ alive = TRUE
    /\ idleTicks = 0
    /\ rid = 1
    /\ other = FreshContext(2)

Init ==
    /\ prog \in Progs
    /\ urlsEnv \in {"unset", "notjson", "nourls", "valid"}
    /\ urlList \in IF urlsEnv = "valid" THEN Urls ELSE {<<>>}
    /\ cookieFile \in {"absent", "notjson", "notarray", "string", "valid"}
    /\ numCookies \in IF cookieFile \in {"string", "valid"} THEN 0..MaxCookies ELSE {0}
    /\ webhook \in IF prog = Strict THEN {"unset", "unparsable", "valid"} ELSE {"unset"}
    /\ Quiescent
    /\ fn = "none"
    /\ dpage = NoPage
    /\ rnd = 0
    /\ dres = "none"
    /\ wait = 0

----------------------------------------------------------------------------
(* One call of sendSlackNotification(kind) from position pc; on rejection
   the awaiting routine throws. *)
Send(kind, d) ==
    /\ slack' = Append(slack, kind)
    /\ delivery' = IF NotifyRejects(webhook) THEN "rejected" ELSE d

----------------------------------------------------------------------------
(* What invokes the run routine: main.js and part_000 call main() at start-up
   (their scheduleJob calls are commented out); part_001 and part_002 register
   app.post('/run') and cron.schedule, both calling runProfileVisits *)
Triggers(p) == IF p \in MainProgs THEN {"main"} ELSE {"http", "cron"}

(* a run routine guarded by a flag: no run starts while another is in progress *)
AdmitsExclusive(otherPc) == otherPc \in {"idle", "returned", "thrown"}

(* app.post('/run') and the cron callback call runProfileVisits() at once,
   whatever another invocation is doing: there is no lock, flag or queue *)
Admits(otherPc) == TRUE

(* a run that announces its start before the test message *)
StartNotificationsSwapped == <<"start", "test">>

(* part_001 runProfileVisits: await sendSlackNotification("Test message...")
   and await sendSlackNotification("... Starting profile visits..."), the
   first statements of the routine *)
StartNotifications == <<"test", "start">>

(* Start of the run routine: runProfileVisits (part_001, part_002) or main
   (main.js, part_000), up to the head of the for loop. *)
StartRun ==
    /\ pc = "idle"
    /\ alive
    /\ Admits(other.pc)
    /\ IF prog = Strict /\ NotifyRejects(webhook)
       THEN \* the first await sendSlackNotification rejects
            /\ Send("test", "ok")
            /\ pc' = "thrown"
            /\ UNCHANGED <<profileUrls, ret>>
       ELSE /\ IF prog = Strict
               THEN \E d \in Deliveries :
                       /\ slack' = slack \o StartNotifications
                       /\ delivery' = d
               ELSE UNCHANGED slackv
            /\ LET loaded == loadProfileUrls(urlsEnv, urlList)
               IN  IF ~Truthy(loaded)
                   THEN /\ pc' = "returned"
                        /\ ret' = [kind |-> "novalid", success |-> FALSE,
                                   message |-> "No valid profile URLs found"]
                        /\ UNCHANGED profileUrls
                   ELSE /\ pc' = "loop"
                        /\ profileUrls' = loaded
                        /\ UNCHANGED ret
    /\ index' = 0
    /\ results' = <<>>
    /\ successCount' = 0
    /\ failureCount' = 0
    /\ \E src \in Triggers(prog) : trigger' = src
    /\ response' = "none"
    /\ UNCHANGED <<config, auxv, alive, visitv, procv, histv>>

(* Loop head, index < profileUrls.length: visitProfile(url) is called *)
BeginVisit ==
    /\ pc = "loop"
    /\ index < Len(profileUrls)
    /\ pc' = "launch"
    /\ attempted' = Append(attempted, index)
    /\ browser' = 0
    /\ vstate' = "none"
    /\ vret' = [undef |-> TRUE]
    /\ verr' = ""
    /\ closeCalled' = FALSE
    /\ gotos' = <<>>
    /\ cookieLog' = <<>>
    /\ reloaded' = "no"
    /\ closeThrew' = FALSE
    /\ kill' = "none"
    /\ phases' = <<>>
    /\ UNCHANGED <<config, auxv, hostv, profileUrls, index, results, successCount, failureCount,
                   ret, procv, launched, navigated, outcomes, pauses, slackv>>

(* a visitProfile whose catch block rethrows in main.js / part_000, where
   main awaits visitProfile outside any try *)
CaughtRethrows(msg) ==
    /\ pc' = IF prog \in MainProgs THEN "thrown" ELSE "finally"
    /\ vstate' = "FAILURE"
    /\ verr' = msg
    /\ vret' = IF prog = Strict THEN [success |-> FALSE, error |-> msg]
               ELSE [undef |-> TRUE]

(* catch (error) of visitProfile: part_001 returns a failure value, the
   other programs only log; control then enters the finally block *)
Caught(msg) ==
    /\ pc' = "finally"
    /\ vstate' = "FAILURE"
    /\ verr' = msg
    /\ vret' = IF prog = Strict THEN [success |-> FALSE, error |-> msg]
               ELSE [undef |-> TRUE]

(* a driver that hands every visit the same browser *)
BrowserIdShared(r, i) == 1

(* the browser process started by puppeteer.launch in the visit of index i
   of run r: every launch starts a new process *)
BrowserId(r, i) == (r - 1) * (MaxUrls + 1) + i + 1

(* setupDriver: puppeteer.launch, browser.pages, page.evaluateOnNewDocument;
   any error is rethrown, so visitProfile's browser stays null *)
SetupDriver ==
    /\ pc = "launch"
    /\ launched' = launched \cup {index}
    /\ \E o \in {"launchFails", "initFails", "ok"} :
          CASE o = "launchFails" ->
                 /\ Caught("Failed to launch the browser process")
                 /\ UNCHANGED <<browser, open, phases>>
            [] o = "initFails" ->
                 /\ Caught("Protocol error")
                 /\ open' = open \cup {BrowserId(rid, index)}
                 /\ UNCHANGED <<browser, phases>>
            [] o = "ok" ->
                 /\ pc' = "bootstrap"
                 /\ browser' = BrowserId(rid, index)
                 /\ open' = open \cup {BrowserId(rid, index)}
                 /\ phases' = Append(phases, "LAUNCH")
                 /\ UNCHANGED <<vstate, vret, verr>>
    /\ UNCHANGED <<config, auxv, hostv, profileUrls, index, results, successCount, failureCount,
                   ret, closeCalled, gotos, cookv, tearv, pendingKill, attempted,
                   navigated, outcomes, pauses, slackv>>

(* an addCookie that takes a missing cookie file for an empty cookie set *)
addCookieErrorNoCheck(file) ==
    CASE file = "notjson"  -> "Unexpected token in JSON"
      [] file = "notarray" -> "cookies is not iterable"
      [] OTHER             -> ""

(* addCookie after page.goto(home): the error raised by the existence check
   (fs.access), by JSON.parse or by the for...of over the parsed value; ""
   when the cookies are loaded *)
addCookieError(file) ==
    CASE file = "absent"   -> "Cookies file not found"
      [] file = "notjson"  -> "Unexpected token in JSON"
      [] file = "notarray" -> "cookies is not iterable"
      [] OTHER             -> ""

(* a cookie loop without the try/catch around page.setCookie: it stops at the
   first cookie that cannot be set *)
setCookieLogAborts(n, failed) ==
    LET last == IF failed = {} THEN n
                ELSE CHOOSE i \in failed : \A j \in failed : i <= j
    IN  [i \in 1..last |-> [cookie |-> i, ok |-> i \notin failed]]

(* for (const cookie of cookies) { try { await page.setCookie(...) }
   catch { continue } }: the calls made when the cookies in failed raise *)
setCookieLog(n, failed) ==
    [i \in 1..n |-> [cookie |-> i, ok |-> i \notin failed]]

(* page operations that go on working after the browser process is gone *)
PageOpNeverFails(b, o) == FALSE

(* browser.newPage(), page.goto() and page.$() talk to the browser process
   of the visit: they reject once that process has been killed *)
PageOpFails(b, o) == b \notin o

(* browser.newPage() and addCookie(page): page.goto(home), the cookie file,
   page.setCookie for each cookie, page.reload() *)
Bootstrap ==
    /\ pc = "bootstrap"
    /\ \E o \in {"newPageFails", "homeFails", "reloadFails", "ok"},
          failed \in SUBSET (1..numCookies) :
          /\ PageOpFails(browser, open) => (o = "newPageFails" /\ failed = {})
          /\ CASE o = "newPageFails" ->
                    /\ Caught("Target closed")
                    /\ UNCHANGED <<gotos, cookv, phases>>
               [] o = "homeFails" ->
                    /\ gotos' = Append(gotos, "home")
                    /\ Caught("Navigation timeout")
                    /\ UNCHANGED <<cookv, phases>>
               [] o \in {"reloadFails", "ok"} ->
                    /\ gotos' = Append(gotos, "home")
                    /\ IF addCookieError(cookieFile) # ""
                       THEN /\ Caught(addCookieError(cookieFile))
                            /\ UNCHANGED <<cookv, phases>>
                       ELSE /\ cookieLog' = setCookieLog(numCookies, failed)
                            /\ reloaded' = IF o = "reloadFails" THEN "failed" ELSE "ok"
                            /\ IF o = "reloadFails"
                               THEN /\ Caught("Reload timeout")
                                    /\ UNCHANGED phases
                               ELSE /\ pc' = "navigate"
                                    /\ phases' = Append(phases, "AUTHENTICATE")
                                    /\ UNCHANGED <<vstate, vret, verr>>
    /\ UNCHANGED <<config, auxv, hostv, profileUrls, index, results, successCount, failureCount,
                   ret, browser, closeCalled, tearv, procv, histv, slackv>>

(* a visit that dwells right after page.goto(url) *)
AfterGotoSkipsCheck(p) == "dwell"

(* what follows a page.goto(url) that succeeded: main.js has no login
   detector and goes on to the dwell, the other programs call
   checkLoginStatus(page) *)
AfterGoto(p) == IF p = "main.js" THEN "dwell" ELSE "verify"

(* await page.goto(url) *)
GotoProfile ==
    /\ pc = "navigate"
    /\ gotos' = Append(gotos, "profile")
    /\ navigated' = navigated \cup {index}
    /\ cookieLog' = <<>>
    /\ reloaded' = "no"
    /\ \E ok \in BOOLEAN :
          /\ PageOpFails(browser, open) => ~ok
          /\ IF ok
             THEN /\ pc' = AfterGoto(prog)
                  /\ phases' = Append(phases, "NAVIGATE")
                  /\ UNCHANGED <<vstate, vret, verr>>
             ELSE /\ Caught(IF PageOpFails(browser, open) THEN "Target closed"
                                                          ELSE "Navigation timeout")
                  /\ UNCHANGED phases
    /\ UNCHANGED <<config, auxv, hostv, profileUrls, index, results, successCount, failureCount,
                   ret, browser, closeCalled, tearv, procv, attempted,
                   launched, outcomes, pauses, slackv>>

(* const isOnProfile = await checkLoginStatus(page) and the test of it *)
Verify ==
    /\ pc = "verify"
    /\ \E p \in VisitPages :
          /\ PageOpFails(browser, open) => p.throws
          /\ IF prog = Strict
             THEN LET r == checkLoginStatusStrict(p, webhook)
                      urgent == ~p.throws /\ p.redirectError
                  IN  /\ IF urgent
                         THEN \E d \in Deliveries : Send("urgent", d)
                         ELSE UNCHANGED slackv
                      /\ IF CheckOutcome(r) = ""
                         THEN /\ pc' = "dwell"
                              /\ phases' = Append(phases, "VERIFY")
                              /\ UNCHANGED <<vstate, vret, verr>>
                         ELSE /\ Caught(CheckOutcome(r))
                              /\ UNCHANGED phases
             ELSE /\ UNCHANGED slackv
                  /\ IF checkLoginStatusBool(p)
                     THEN /\ pc' = "dwell"
                          /\ phases' = Append(phases, "VERIFY")
                          /\ UNCHANGED <<vstate, vret, verr>>
                     ELSE /\ Caught("Profile visit failed - redirected to login")
                          /\ UNCHANGED phases
    /\ UNCHANGED <<config, auxv, hostv, profileUrls, index, results, successCount, failureCount,
                   ret, browser, closeCalled, gotos, cookv, tearv, procv, histv>>

(* the randomized dwell and the end of the try block *)
Dwell ==
    /\ pc = "dwell"
    /\ pc' = "finally"
    /\ vstate' = "SUCCESS"
    /\ vret' = IF prog = Strict THEN [success |-> TRUE] ELSE [undef |-> TRUE]
    /\ UNCHANGED <<config, auxv, hostv, profileUrls, index, results, successCount, failureCount,
                   ret, browser, verr, closeCalled, gotos, cookv, tearv, phases, procv,
                   histv, slackv>>

(* Does the finally block of visitProfile call browser.close()?  part_001
   only logs "Closing the browser..." and "Browser closed." *)
FinallyCloses(p) == p # Strict

(* a teardown whose catch block only logs the close error *)
ForcedKillMissing(threw, execThrows) == "none"

(* catch (error) of browser.close(): try { exec('pkill -f chromium') }
   catch { }: the kill is issued only when close raised, and an exec that
   raises is ignored *)
ForcedKill(threw, execThrows) ==
    IF ~threw THEN "none"
    ELSE IF execThrows THEN "failed"
    ELSE "issued"

(* finally { if (browser) { try { await browser.close() } catch { pkill } } } *)
Teardown ==
    /\ pc = "finally"
    /\ pc' = "visit_done"
    /\ outcomes' = Append(outcomes, vstate)
    /\ cookieLog' = <<>>
    /\ reloaded' = "no"
    /\ IF browser # 0 /\ FinallyCloses(prog)
       THEN /\ closeCalled' = TRUE
            /\ \E closed \in BOOLEAN, threw \in BOOLEAN, execThrows \in BOOLEAN :
                  /\ open' = IF closed THEN open \ {browser} ELSE open
                  /\ closed \/ threw
                  /\ threw \/ ~execThrows
                  /\ closeThrew' = threw
                  /\ kill' = ForcedKill(threw, execThrows)
                  /\ pendingKill' = (pendingKill \/ kill' = "issued")
       ELSE UNCHANGED <<closeCalled, tearv, procv>>
    /\ UNCHANGED <<config, auxv, hostv, profileUrls, index, results, successCount, failureCount,
                   ret, browser, vstate, vret, verr, gotos, phases, attempted,
                   launched, navigated, pauses, slackv>>

(* the chromium processes matched by 'pkill -f chromium' die: all of them,
   or none when the executable is not named chromium *)
KillLands ==
    /\ pendingKill
    /\ pendingKill' = FALSE
    /\ open' \in {{}, open}
    /\ UNCHANGED <<config, auxv, hostv, runv, visitv, histv, slackv>>

----------------------------------------------------------------------------
(* the promise of visitProfile rejected (none of the programs produces it:
   every catch and finally block of visitProfile only logs) *)
VisitThrew(v) == "threw" \in DOMAIN v

(* processedUrls of the failure result of part_001 *)
ProcessedUrlsOffByOne(i) == i

ProcessedUrls(i) == i + 1

(* a failure branch that ends the process on a login error, as the log
   messages "Stopping execution" suggest *)
ExitsProcessOnLoginError(err) == IsLoginError(err)

(* if (result.error && result.error.includes('LOGIN_ERROR')) { console.error(
   "LOGIN ERROR - STOPPING VISITS BUT KEEPING APP RUNNING") }: the failure
   branch only logs, there is no process.exit *)
ExitsProcess(err) == FALSE

(* a loop that pauses after every successful visit *)
PauseDueAlways(i, n) == TRUE

(* if (index < profileUrls.length - 1) { ... await sleep(delay * 1000) } *)
PauseDue(i, n) == i < n - 1

(* a loop that stops on authentication failures only *)
VisitOkUnlessLoginError(v) == v.success \/ ~IsLoginError(v.error)

(* if (result.success) { ... } else { ... return }: the test that decides
   between going on and stopping the run *)
VisitOk(v) == v.success

(* part_001 runProfileVisits: the loop body after await visitProfile(url) *)
RecordStrict ==
    /\ pc = "visit_done"
    /\ prog = Strict
    /\ LET url == profileUrls[index + 1]
       IN  IF VisitOk(vret)
           THEN /\ results' = Append(results, [url |-> url, success |-> TRUE])
                /\ successCount' = successCount + 1
                /\ IF PauseDue(index, Len(profileUrls))
                   THEN pc' = "pause" /\ index' = index
                   ELSE pc' = "loop" /\ index' = index + 1
                /\ UNCHANGED <<failureCount, ret, slackv, alive>>
           ELSE /\ failureCount' = failureCount + 1
                /\ alive' = ~ExitsProcess(vret.error)
                /\ results' = Append(results, [url |-> url, success |-> FALSE,
                                               error |-> vret.error])
                /\ \E d \in Deliveries : Send("failure", d)
                /\ IF NotifyRejects(webhook)
                   THEN pc' = "thrown" /\ UNCHANGED ret
                   ELSE /\ pc' = "returned"
                        /\ ret' = [kind |-> "counters",
                                   success |-> FALSE,
                                   totalUrls |-> Len(profileUrls),
                                   processedUrls |-> ProcessedUrls(index),
                                   successCount |-> successCount,
                                   failureCount |-> failureCount',
                                   results |-> results']
                /\ UNCHANGED <<index, successCount>>
    /\ UNCHANGED <<config, auxv, reqv, profileUrls, visitv, procv, histv>>

(* part_001: the pause between two profiles, then index++ *)
Pause ==
    /\ pc = "pause"
    /\ pc' = "loop"
    /\ index' = index + 1
    /\ pauses' = pauses \cup {index}
    /\ UNCHANGED <<config, auxv, hostv, profileUrls, results, successCount, failureCount, ret,
                   visitv, procv, attempted, launched, navigated, outcomes, slackv>>

(* part_002 runProfileVisits: try { await visitProfile(url); push success }
   catch { push failure }, then index++ *)
RecordLenient ==
    /\ pc = "visit_done"
    /\ prog = Lenient
    /\ LET url == profileUrls[index + 1]
       IN  results' = Append(results,
                IF VisitThrew(vret)
                THEN [url |-> url, success |-> FALSE, error |-> vret.threw]
                ELSE [url |-> url, success |-> TRUE])
    /\ index' = index + 1
    /\ pc' = "loop"
    /\ UNCHANGED <<config, auxv, hostv, profileUrls, successCount, failureCount, ret,
                   visitv, procv, histv, slackv>>

(* main.js / part_000 main: await visitProfile(url); index++ *)
RecordMain ==
    /\ pc = "visit_done"
    /\ prog \in MainProgs
    /\ index' = index + 1
    /\ pc' = "loop"
    /\ UNCHANGED <<config, auxv, hostv, profileUrls, results, successCount, failureCount, ret,
                   visitv, procv, histv, slackv>>

(* Loop exit, index = profileUrls.length *)
Finish ==
    /\ pc = "loop"
    /\ index >= Len(profileUrls)
    /\ CASE prog = Strict ->
              /\ \E d \in Deliveries : Send("summary", d)
              /\ IF NotifyRejects(webhook)
                 THEN pc' = "thrown" /\ UNCHANGED ret
                 ELSE /\ pc' = "returned"
                      /\ ret' = [kind |-> "counters",
                                 success |-> TRUE,
                                 totalUrls |-> Len(profileUrls),
                                 processedUrls |-> Len(profileUrls),
                                 successCount |-> successCount,
                                 failureCount |-> failureCount,
                                 results |-> results]
         [] prog = Lenient ->
              /\ pc' = "returned"
              /\ ret' = [kind |-> "plain", success |-> TRUE, results |-> results]
              /\ UNCHANGED slackv
         [] prog \in MainProgs ->
              /\ pc' = "idling"
              /\ UNCHANGED <<ret, slackv>>
    /\ UNCHANGED <<config, auxv, hostv, profileUrls, index, results, successCount, failureCount,
                   visitv, procv, histv>>

(* the end of the handler that awaited runProfileVisits: app.post('/run')
   answers res.json(...) (status 200) when the promise resolved and
   res.status(500).json(...) when it rejected; the cron callback logs a
   rejection *)
HttpStatus(p) == IF p = "thrown" THEN "500" ELSE "200"

HandlerEnd ==
    /\ pc \in {"returned", "thrown"}
    /\ trigger \in {"http", "cron"}
    /\ response = "none"
    /\ response' = IF trigger = "cron" THEN "cron_done" ELSE HttpStatus(pc)
    /\ UNCHANGED <<config, auxv, trigger, alive, runv, visitv, procv, histv, slackv>>

(* a main whose registered job visits the URLs again *)
IdleRevisits ==
    /\ pc = "idling"
    /\ idleTicks < MaxTicks
    /\ idleTicks' = idleTicks + 1
    /\ pc' = "loop"
    /\ index' = 0
    /\ UNCHANGED <<config, hostv, rid, other, purev, profileUrls, results,
                   successCount, failureCount, ret, visitv, procv, histv, slackv>>

(* main.js / part_000: while (true) { console.log(time); await sleep(1000) } *)
Idle ==
    /\ pc = "idling"
    /\ idleTicks < MaxTicks
    /\ idleTicks' = idleTicks + 1
    /\ UNCHANGED <<config, hostv, rid, other, purev, runv, visitv, procv, histv,
                   slackv>>

Next ==
    \/ StartRun
    \/ BeginVisit
    \/ SetupDriver
    \/ Bootstrap
    \/ GotoProfile
    \/ Verify
    \/ Dwell
    \/ Teardown
    \/ KillLands
    \/ RecordStrict
    \/ Pause
    \/ RecordLenient
    \/ RecordMain
    \/ Finish
    \/ HandlerEnd
    \/ Idle

Spec == Init /\ [][Next]_vars

----------------------------------------------------------------------------
Terminated == pc \in {"returned", "thrown", "idling"}

----------------------------------------------------------------------------
(* part_001 / part_002 as a server: app.post('/run') and the cron callback
   each invoke runProfileVisits; two invocations interleave at their awaits.
   The variables of the invocation that is not stepping are kept in other.
   The URL list holds one URL, so no run pauses between two profiles. *)

Context ==
    [rid |-> rid,
     pc |-> pc,
     profileUrls |-> profileUrls,
     index |-> index,
     results |-> results,
     successCount |-> successCount,
     failureCount |-> failureCount,
     ret |-> ret,
     browser |-> browser,
     vstate |-> vstate,
     vret |-> vret,
     verr |-> verr,
     closeCalled |-> closeCalled,
     gotos |-> gotos,
     cookieLog |-> cookieLog,
     reloaded |-> reloaded,
     closeThrew |-> closeThrew,
     kill |-> kill,
     phases |-> phases,
     pauses |-> pauses,
     attempted |-> attempted,
     launched |-> launched,
     navigated |-> navigated,
     outcomes |-> outcomes,
     slack |-> slack,
     delivery |-> delivery,
     trigger |-> trigger,
     response |-> response]

(* the event loop resumes the other invocation *)
Switch ==
    /\ other' = Context
    /\ rid' = other.rid
    /\ pc' = other.pc
    /\ profileUrls' = other.profileUrls
    /\ index' = other.index
    /\ results' = other.results
    /\ successCount' = other.successCount
    /\ failureCount' = other.failureCount
    /\ ret' = other.ret
    /\ browser' = other.browser
    /\ vstate' = other.vstate
    /\ vret' = other.vret
    /\ verr' = other.verr
    /\ closeCalled' = other.closeCalled
    /\ gotos' = other.gotos
    /\ cookieLog' = other.cookieLog
    /\ reloaded' = other.reloaded
    /\ closeThrew' = other.closeThrew
    /\ kill' = other.kill
    /\ phases' = other.phases
    /\ pauses' = other.pauses
    /\ attempted' = other.attempted
    /\ launched' = other.launched
    /\ navigated' = other.navigated
    /\ outcomes' = other.outcomes
    /\ slack' = other.slack
    /\ delivery' = other.delivery
    /\ trigger' = other.trigger
    /\ response' = other.response
    /\ UNCHANGED <<config, procv, alive, idleTicks, purev>>

InitServer ==
    /\ prog \in {Strict, Lenient}
    /\ urlsEnv = "valid"
    /\ urlList = <<Url(1)>>
    /\ cookieFile = "valid"
    /\ numCookies = 0
    /\ webhook \in IF prog = Strict THEN {"unset", "valid"} ELSE {"unset"}
    /\ Quiescent
    /\ fn = "none"
    /\ dpage = NoPage
    /\ rnd = 0
    /\ dres = "none"
    /\ wait = 0

NextServer ==
    \/ StartRun
    \/ BeginVisit
    \/ SetupDriver
    \/ Bootstrap
    \/ GotoProfile
    \/ Verify
    \/ Dwell
    \/ Teardown
    \/ KillLands
    \/ RecordStrict
    \/ RecordLenient
    \/ Finish
    \/ HandlerEnd
    \/ Switch

SpecServer == InitServer /\ [][NextServer]_vars

----------------------------------------------------------------------------
(* The detector and the randomized waits applied in isolation *)

\* a wait without the rounding to one decimal
RandomWaitMsUnrounded(k, lo, hi) ==
    (k * (hi - lo) * 1000) \div RandSteps + lo * 1000

\* Math.round((Math.random() * (hi - lo) + lo) * 10) / 10 seconds, passed to
\* sleep as waitTime * 1000 ms, with Math.random() = k / RandSteps;
\* Math.round(x) is floor(x + 1/2)
RandomWaitMs(k, lo, hi) ==
    ((2 * 10 * (hi - lo) * k + (2 * 10 * lo + 1) * RandSteps) \div (2 * RandSteps)) * 100

\* visitProfile: the dwell on the profile page
DwellMs(k) == RandomWaitMs(k, 5, 10)

\* part_001 runProfileVisits: the delay between two profiles
PauseMs(k) == RandomWaitMs(k, 5, 15)

InitPure ==
    /\ fn \in {"detector", "strict", "dwell", "pause"}
    /\ prog \in CASE fn = "detector" -> {"part_000", "part_002"}
                 [] fn = "strict" -> {Strict}
                 [] fn = "dwell" -> Progs
                 [] fn = "pause" -> {Strict}
    /\ urlsEnv = "unset"
    /\ urlList = <<>>
    /\ cookieFile = "absent"
    /\ numCookies = 0
    /\ webhook \in IF fn = "strict" THEN {"unset", "unparsable", "valid"} ELSE {"unset"}
    /\ Quiescent
    /\ dpage \in IF fn \in {"detector", "strict"} THEN Pages ELSE {NoPage}
    /\ rnd \in IF fn \in {"detector", "strict"} THEN {0} ELSE 0..(RandSteps - 1)
    /\ dres = "none"
    /\ wait = 0

Detect ==
    /\ fn = "detector"
    /\ dres = "none"
    /\ dres' = IF checkLoginStatusBool(dpage) THEN "true" ELSE "false"
    /\ UNCHANGED <<config, runv, visitv, procv, histv, slackv, hostv, idleTicks,
                   rid, other, fn, dpage, rnd, wait>>

(* part_001: checkLoginStatus(page) and what visitProfile makes of its answer *)
DetectStrict ==
    /\ fn = "strict"
    /\ dres = "none"
    /\ dres' = checkLoginStatusStrict(dpage, webhook)
    /\ verr' = CheckOutcome(dres')
    /\ UNCHANGED <<config, runv, browser, vstate, vret, closeCalled, gotos, cookv,
                   tearv, phases, procv, histv, slackv, hostv, idleTicks,
                   rid, other, fn, dpage, rnd, wait>>

ComputeDwell ==
    /\ fn = "dwell"
    /\ wait = 0
    /\ wait' = DwellMs(rnd)
    /\ UNCHANGED <<config, runv, visitv, procv, histv, slackv, hostv, idleTicks,
                   rid, other, fn, dpage, rnd, dres>>

ComputePause ==
    /\ fn = "pause"
    /\ wait = 0
    /\ wait' = PauseMs(rnd)
    /\ UNCHANGED <<config, runv, visitv, procv, histv, slackv, hostv, idleTicks,
                   rid, other, fn, dpage, rnd, dres>>

NextPure ==
    \/ Detect
    \/ DetectStrict
    \/ ComputeDwell
    \/ ComputePause

SpecPure == InitPure /\ [][NextPure]_vars

TypeOK ==
    /\ prog \in Progs
    /\ pc \in {"idle", "loop", "launch", "bootstrap", "navigate", "verify", "dwell",
               "finally", "visit_done", "pause", "returned", "thrown", "idling"}
    /\ index \in 0..Len(profileUrls)
    /\ browser \in 0..BrowserId(2, MaxUrls)
    /\ vstate \in {"none", "SUCCESS", "FAILURE"}
    /\ trigger \in {"none", "main", "http", "cron"}
    /\ response \in {"none", "200", "500", "cron_done"}
    /\ alive \in BOOLEAN
    /\ idleTicks \in 0..MaxTicks
    /\ rid \in {1, 2}
    /\ other.rid = 3 - rid
    /\ fn \in {"none", "detector", "strict", "dwell", "pause"}
    /\ dres = "none" \/ dres \in {"true", "false"} \/ IsLoginError(dres)
    /\ wait \in 0..15000

----------------------------------------------------------------------------
(* Properties *)

NumUrls == Len(loadProfileUrls(urlsEnv, urlList))

\* the visit of the URL at index k ended with a LOGIN_ERROR
AuthFailedAt(k) ==
    \/ /\ index = k
       /\ vstate = "FAILURE"
       /\ IsLoginError(verr)
    \/ /\ k < Len(results)
       /\ ~results[k + 1].success
       /\ IsLoginError(results[k + 1].error)

\* C1: part_001, stop on failure: once the visit of the URL at index k has
\* failed authentication, no URL at an index greater than k is launched,
\* navigated to or recorded, and the result returned has processedUrls = k+1
\* and k+1 result entries.
C1_StopOnAuthFailure ==
    prog = Strict =>
       \A k \in 0..(Len(profileUrls) - 1) :
          AuthFailedAt(k) =>
             /\ \A j \in launched \cup navigated : j <= k
             /\ \A i \in 1..Len(attempted) : attempted[i] <= k
             /\ Len(results) <= k + 1
             /\ pc \in {"finally", "visit_done", "returned", "thrown"}
             /\ pc = "returned" =>
                   /\ ret.processedUrls = k + 1
                   /\ Len(ret.results) = k + 1
                   /\ ~ret.success

C1_Witness ==
    /\ prog = Strict
    /\ pc = "returned"
    /\ Len(profileUrls) = 2
    /\ AuthFailedAt(0)
    /\ ret.processedUrls = 1

\* every visit that was started has finished in SUCCESS
AllVisitsPassed ==
    /\ Len(outcomes) = Len(attempted)
    /\ \A i \in 1..Len(outcomes) : outcomes[i] = "SUCCESS"

\* C2: part_001: with a valid cookie file and every visit passing the login
\* check, the run returns success = true, successCount = N, failureCount = 0
\* and one result entry per URL, N being the length of the URL list.
C2_AllSucceed ==
    (prog = Strict /\ Terminated /\ cookieFile = "valid" /\ AllVisitsPassed) =>
        /\ pc = "returned"
        /\ ret.success
        /\ ret.successCount = NumUrls
        /\ ret.failureCount = 0
        /\ Len(ret.results) = NumUrls

\* C3: in every program, a visit that got a browser from setupDriver has
\* invoked browser.close() on it when visitProfile completes.
C3_TeardownAlways ==
    (vstate # "none" /\ pc # "finally" /\ browser # 0) => closeCalled

\* C4: continue-on-failure programs (part_002, main.js, part_000): every URL
\* is attempted exactly once, in list order, whatever the outcome of the
\* visits before it; a run that has ended has attempted all of them.
C4_ContinueOnFailure ==
    prog \in {Lenient} \cup MainProgs =>
        /\ Len(attempted) <= Len(profileUrls)
        /\ \A i \in 1..Len(attempted) : attempted[i] = i - 1
        /\ Terminated => Len(attempted) = NumUrls

C4_Witness ==
    /\ prog \in {Lenient} \cup MainProgs
    /\ Terminated
    /\ Len(profileUrls) = 2
    /\ outcomes[1] = "FAILURE"
    /\ attempted = <<0, 1>>

\* C5 as stated: when the cookie file is absent, addCookie fails before any
\* page.goto of that visit.
C5_NoGotoBeforeCookieError ==
    verr = "Cookies file not found" => gotos = <<>>

\* C5 amended: with an absent cookie file, addCookie fails right after the
\* navigation to the home page: that page.goto is the only one of the visit,
\* and the profile URL is never navigated to.
C5_OnlyHomeGotoBeforeCookieError ==
    /\ verr = "Cookies file not found" =>
          /\ cookieFile = "absent"
          /\ gotos = <<"home">>
          /\ index \notin navigated
    /\ cookieFile = "absent" =>
          /\ navigated = {}
          /\ pc \notin {"navigate", "verify", "dwell"}

C5_Witness ==
    /\ cookieFile = "absent"
    /\ verr = "Cookies file not found"
    /\ gotos = <<"home">>
    /\ pc = "visit_done"

\* C6: runProfileVisits (part_001, part_002) with a nonexistent cookie file
\* and at least one URL to visit never returns a result that reports the run
\* or one of its URLs as successful.
C6_AbsentCookieFileFailsRun ==
    (prog \in {Strict, Lenient} /\ cookieFile = "absent" /\ pc = "returned"
        /\ Len(profileUrls) >= 1) =>
        /\ ~ret.success
        /\ \A i \in 1..Len(results) : ~results[i].success

\* C7: runProfileVisits (part_001, part_002): a visit that ended in FAILURE
\* is recorded with success = false and an error description, and an entry
\* with success = true belongs to a visit that reached SUCCESS.
C7_FailureRecorded ==
    prog \in {Strict, Lenient} =>
        \A i \in 1..Len(results) :
            /\ outcomes[i] = "FAILURE" =>
                  (~results[i].success /\ "error" \in DOMAIN results[i])
            /\ results[i].success => outcomes[i] = "SUCCESS"

\* C8: the promise returned by sendSlackNotification never rejects, so no
\* run is aborted by a notification.
C8_NotifyNeverRejects ==
    /\ delivery # "rejected"
    /\ pc # "thrown"

\* C9: runProfileVisits with a missing or invalid URL list returns the
\* failure outcome "No valid profile URLs found" and launches no browser.
C9_InvalidUrlListFailsRun ==
    (prog \in {Strict, Lenient} /\ urlsEnv # "valid" /\ pc = "returned") =>
        /\ ret.kind = "novalid"
        /\ ~ret.success
        /\ launched = {}

\* C10: part_001: at most one launched browser is open at any moment, and
\* no browser is open when the next one is launched.
C10_OneBrowserAtATime ==
    prog = Strict =>
        /\ Cardinality(open) <= 1
        /\ pc = "launch" => open = {}

\* C11: in every program the promise of visitProfile resolves whatever step
\* fails: a visit that reached a terminal state hands control back to the
\* loop, and a run is never aborted by a visit.
C11_VisitNeverThrows ==
    /\ ~VisitThrew(vret)
    /\ pc = "thrown" => delivery = "rejected"
    /\ vstate # "none" =>
          pc \in {"finally", "visit_done", "pause", "loop", "returned", "thrown",
                  "idling"}

C11_Witness ==
    /\ prog = "main.js"
    /\ vstate = "FAILURE"
    /\ closeThrew
    /\ kill = "failed"
    /\ pc = "loop"
    /\ index = 1

\* C12: in every program, a browser.close() that raises during the teardown
\* is followed by exec('pkill -f chromium'), the kill is issued in no other
\* case, and neither the close error nor a failing exec leaves the visit.
C12_ForcedKillOnCloseFailure ==
    /\ closeThrew <=> kill # "none"
    /\ kill = "issued" => closeCalled
    /\ closeThrew => (pc # "finally" /\ ~VisitThrew(vret))

C12_Witness ==
    /\ closeThrew
    /\ kill = "issued"
    /\ pendingKill
    /\ pc = "visit_done"

\* C13: addCookie calls page.setCookie once for each of the n cookies, in file
\* order, whichever of them fail; it then reloads the page, and when the
\* reload succeeds addCookie completes and the visit is about to navigate to
\* the profile URL.
C13_CookieFailuresSkipped ==
    /\ reloaded # "no" =>
          /\ Len(cookieLog) = numCookies
          /\ \A i \in 1..Len(cookieLog) : cookieLog[i].cookie = i
    /\ reloaded = "ok" => (pc = "navigate" /\ vstate = "none")
    /\ cookieLog # <<>> => reloaded # "no"
    /\ (cookieFile = "valid" /\ gotos = <<"home">> /\ pc \in {"navigate", "finally"}
          /\ verr # "Navigation timeout") => reloaded # "no"

C13_Witness ==
    /\ cookieFile = "valid"
    /\ numCookies = 2
    /\ pc = "navigate"
    /\ reloaded = "ok"
    /\ ~cookieLog[1].ok
    /\ cookieLog[2].ok

\* C14: with a cookie file that is not JSON or whose JSON value is not an
\* array, no cookie is installed, the page is not reloaded and the profile
\* URL is not navigated to.
C14_MalformedCookieFileFails ==
    cookieFile \in {"notjson", "notarray", "string"} =>
        /\ cookieLog = <<>>
        /\ reloaded = "no"
        /\ navigated = {}
        /\ pc \notin {"navigate", "verify", "dwell"}

\* C17: POST /run answers status 200 when the run succeeded and status 500
\* when it failed: a run that returned a result with success = false has been
\* answered with 500.
C17_FailedRunAnswered500 ==
    (trigger = "http" /\ response # "none" /\ pc = "returned" /\ ~ret.success) =>
        response = "500"

C18_DetectorExact ==
    (fn = "detector" /\ dres # "none") =>
        /\ dres = "true" <=>
              /\ ~dpage.throws
              /\ \A i \in 1..NumLoginIndicators : i \notin dpage.markers
              /\ \A part \in LoginUrlParts : part \notin dpage.url
              /\ "linkedin.com" \in dpage.url
        /\ dres \in {"true", "false"}

C18_Witness ==
    /\ fn = "detector"
    /\ dres = "true"
    /\ dpage.redirectError
    /\ dpage.url = {"linkedin.com"}

\* C19: the dwell is a whole number of tenths of a second between 5.0 s and
\* 10.0 s, the pause of part_001 a whole number of tenths between 5.0 s and
\* 15.0 s, and each of them takes more than one value.
C19_WaitsWithinBounds ==
    /\ (fn = "dwell" /\ wait # 0) => (wait % 100 = 0 /\ 5000 <= wait /\ wait <= 10000)
    /\ (fn = "pause" /\ wait # 0) => (wait % 100 = 0 /\ 5000 <= wait /\ wait <= 15000)
    /\ \E j, k \in 0..(RandSteps - 1) : DwellMs(j) # DwellMs(k)
    /\ \E j, k \in 0..(RandSteps - 1) : PauseMs(j) # PauseMs(k)

C19_Witness ==
    /\ fn = "pause"
    /\ wait = 15000

\* an invocation of the run routine that has started and not ended
InProgress(p) == p \notin {"idle", "returned", "thrown"}

\* C15: there is no mutual exclusion between POST /run and the cron tick: a
\* trigger that has not started its run can start it at once, whatever the
\* other invocation is doing, so two runs are in progress with two browsers
\* open at the same time.
C15_NoMutualExclusion ==
    (pc = "idle" /\ alive) => ENABLED StartRun

C15_Witness ==
    /\ InProgress(pc)
    /\ InProgress(other.pc)
    /\ trigger = "http"
    /\ other.trigger = "cron"
    /\ browser # 0
    /\ other.browser # 0
    /\ browser # other.browser
    /\ {browser, other.browser} \subseteq open

\* C16: no run, failed or not, ends the process; a trigger arriving after a
\* run has returned a failure or thrown starts a run, and a run that starts
\* has index 0, zero counters and no results, whatever the other run left.
C16_FailedRunKeepsServing ==
    /\ [](alive)
    /\ []((pc = "idle" /\ other.pc \in {"returned", "thrown"}) => ENABLED StartRun)
    /\ [][(rid' = rid /\ pc = "idle" /\ pc' # "idle") =>
            /\ index' = 0
            /\ successCount' = 0
            /\ failureCount' = 0
            /\ results' = <<>>
            /\ attempted' = <<>>]_vars

C16_Witness ==
    /\ prog = Strict
    /\ other.pc = "returned"
    /\ ~other.ret.success
    /\ other.failureCount = 1
    /\ IsLoginError(other.results[1].error)
    /\ other.response = "200"
    /\ trigger = "cron"
    /\ pc = "launch"
    /\ index = 0
    /\ failureCount = 0
    /\ results = <<>>
    /\ alive

\* the phases of a visit, in the order of the try block of visitProfile
AllPhases == <<"LAUNCH", "AUTHENTICATE", "NAVIGATE", "VERIFY">>

IsPrefix(a, b) == Len(a) <= Len(b) /\ \A i \in 1..Len(a) : a[i] = b[i]

\* C21: the phases of a visit complete in the order LAUNCH, AUTHENTICATE,
\* NAVIGATE, VERIFY: the profile URL is navigated to only after addCookie
\* completed (home page, every cookie attempted, reload), the detector runs
\* only after the profile navigation, the dwell and SUCCESS come only after
\* the detector passed, and a visit that failed is in none of the later phases.
C21_PhaseOrder ==
    /\ IsPrefix(phases, AllPhases)
    /\ (\E i \in 1..Len(gotos) : gotos[i] = "profile") =>
           (Len(phases) >= 2 /\ gotos = <<"home", "profile">>)
    /\ pc = "navigate" =>
           /\ phases = SubSeq(AllPhases, 1, 2)
           /\ gotos = <<"home">>
           /\ reloaded = "ok"
           /\ Len(cookieLog) = numCookies
    /\ pc = "verify" =>
           (phases = SubSeq(AllPhases, 1, 3) /\ gotos = <<"home", "profile">>)
    /\ (pc = "dwell" \/ vstate = "SUCCESS") =>
           phases = IF prog = "main.js" THEN SubSeq(AllPhases, 1, 3) ELSE AllPhases
    /\ vstate = "FAILURE" =>
           /\ phases # AllPhases
           /\ pc \notin {"launch", "bootstrap", "navigate", "verify", "dwell"}

C21_Witness ==
    /\ prog = Strict
    /\ pc = "visit_done"
    /\ vstate = "SUCCESS"
    /\ phases = AllPhases
    /\ gotos = <<"home", "profile">>

\* C22: when puppeteer.launch succeeded and a later step of setupDriver
\* failed, the browser that was launched is no longer running once the visit
\* has ended.
C22_NoBrowserOutlivesFailedInit ==
    (pc = "visit_done" /\ vstate = "FAILURE" /\ verr = "Protocol error") =>
        BrowserId(rid, index) \notin open

C24_StrictDetectorNeverFalse ==
    (fn = "strict" /\ dres # "none") =>
        /\ dres # "false"
        /\ dres = "true" \/ IsLoginError(dres)
        /\ (dpage.throws \/ (dpage.redirectError /\ NotifyRejects(webhook))) =>
              dres = "LOGIN_ERROR: Unable to verify login status"
        /\ verr # "LOGIN_ERROR: Authentication failed on profile page"
        /\ dres = "true" <=> verr = ""
        /\ dres # "true" => verr = dres

C24_Witness ==
    /\ fn = "strict"
    /\ dres = "LOGIN_ERROR: Unable to verify login status"
    /\ ~dpage.throws
    /\ dpage.redirectError
    /\ webhook = "unset"

\* the visit of the URL at index k failed, whatever the cause
FailedAt(k) ==
    \/ /\ index = k
       /\ vstate = "FAILURE"
    \/ /\ k < Len(results)
       /\ ~results[k + 1].success

\* C25: part_001 stops at the first failed visit of any cause: once the visit
\* at index k has failed, no URL at a greater index is attempted, launched or
\* navigated to, the run is ending, and the result returned has
\* processedUrls = k+1.
C25_StopOnAnyFailure ==
    prog = Strict =>
       \A k \in 0..(Len(profileUrls) - 1) :
          FailedAt(k) =>
             /\ \A i \in 1..Len(attempted) : attempted[i] <= k
             /\ \A j \in launched \cup navigated : j <= k
             /\ pc \in {"finally", "visit_done", "returned", "thrown"}
             /\ pc = "returned" =>
                   /\ ~ret.success
                   /\ ret.processedUrls = k + 1
                   /\ ret.results[k + 1].error = verr

C25_Witness ==
    /\ prog = Strict
    /\ NumUrls = 2
    /\ pc = "returned"
    /\ verr = "Failed to launch the browser process"
    /\ ret.processedUrls = 1
    /\ attempted = <<0>>

\* the notifications that end a run of part_001
Terminal == {"failure", "summary"}

C29_PauseOnlyBetweenVisits ==
    /\ prog # Strict => (pauses = {} /\ pc # "pause")
    /\ prog = Strict =>
          /\ pc = "pause" => (vstate = "SUCCESS" /\ index < Len(profileUrls) - 1)
          /\ \A i \in pauses :
                /\ i < Len(profileUrls) - 1
                /\ results[i + 1].success
          /\ \A i \in 0..(Len(results) - 1) :
                (results[i + 1].success /\ i < Len(profileUrls) - 1 /\ i < index)
                    => i \in pauses
          /\ (pc = "returned" /\ ret.success /\ NumUrls >= 1) =>
                Cardinality(pauses) = NumUrls - 1

C29_Witness ==
    /\ prog = Strict
    /\ pc = "returned"
    /\ ret.success
    /\ NumUrls = 2
    /\ pauses = {0}

TooManyRedirects == "LOGIN_ERROR: Too many redirects - cookies may be invalid"

\* C30: the strict detector answers a redirect error before it looks at the
\* login selectors and the URL; the urgent notification is sent before the
\* error is raised, so while it is the last notification the visit has failed
\* with the redirect error; and a run that stopped on a redirect error sent
\* the urgent notification, then the failure notification as its last, and
\* no summary.
C30_UrgentBeforeFailure ==
    /\ \A p \in VisitPages :
          (~p.throws /\ p.redirectError) => checkLoginStatusStrict(p, "valid") = TooManyRedirects
    /\ prog = Strict =>
          /\ (slack # <<>> /\ slack[Len(slack)] = "urgent") =>
                (vstate = "FAILURE" /\ verr = TooManyRedirects /\ pc \in {"finally", "visit_done"})
          /\ (pc = "returned" /\ ~ret.success
                 /\ ret.results[Len(ret.results)].error = TooManyRedirects) =>
                /\ Len(slack) >= 4
                /\ slack[Len(slack) - 1] = "urgent"
                /\ slack[Len(slack)] = "failure"
                /\ \A i \in 1..Len(slack) : slack[i] # "summary"

C30_Witness ==
    /\ prog = Strict
    /\ pc = "returned"
    /\ verr = TooManyRedirects
    /\ slack = <<"test", "start", "urgent", "failure">>

\* C28: no step writes the cookie file or the URL configuration; the browser
\* a visit obtains is a process that was not running before; a visit starts
\* with no browser, no page visited, no cookie set and no phase done, whatever
\* the previous visit left; and every visit that got past addCookie read a
\* usable cookie file itself.
C28_NoSharedVisitState ==
    /\ [][UNCHANGED config]_vars
    /\ [][(browser' # browser /\ browser' # 0) => browser' \notin open]_vars
    /\ [](pc = "launch" =>
            /\ browser = 0
            /\ vstate = "none"
            /\ gotos = <<>>
            /\ cookieLog = <<>>
            /\ reloaded = "no"
            /\ phases = <<>>)
    /\ [](Len(phases) >= 2 => addCookieError(cookieFile) = "")

C28_Witness ==
    /\ prog = Lenient
    /\ index = 1
    /\ outcomes = <<"FAILURE">>
    /\ pc = "navigate"
    /\ browser = BrowserId(1, 1)
    /\ reloaded = "ok"

\* C27: with two runs overlapping, a visit loses its browser in mid-visit
\* only when the other run's teardown has issued the forced kill, and a visit
\* whose browser was killed fails at its next page operation: the outcome of
\* a visit depends on what the other run does.
C27_KillCrossesRuns ==
    /\ []((pc \in {"bootstrap", "navigate", "verify", "dwell"} /\ browser \notin open)
             => other.kill = "issued")
    /\ [][(rid' = rid /\ pc \in {"bootstrap", "navigate", "verify"}
             /\ browser \notin open /\ pc' # pc)
            => (pc' = "finally" /\ vstate' = "FAILURE")]_vars

C27_Witness ==
    /\ prog = Lenient
    /\ pc = "finally"
    /\ vstate = "FAILURE"
    /\ verr = "Target closed"
    /\ phases = <<"LAUNCH", "AUTHENTICATE">>
    /\ browser \notin open
    /\ kill = "none"
    /\ other.kill = "issued"
    /\ other.closeThrew

====
